---- MODULE Spec2Model ----
(***************************************************************************)
(* Model of shogun::kernel_exp_family_impl::Base                           *)
(* (src/shogun/distributions/kernel_exp_family/impl/Base.cpp).             *)
(*                                                                         *)
(* An SGMatrix handle is a record [matrix, num_rows, num_cols, data]:      *)
(* matrix is the address of the shared buffer, data abstracts the buffer's *)
(* numerical contents.  Two handles with the same address see the same     *)
(* contents; two handles with the same contents need not share an address. *)
(* Floating point numbers are modelled by exact integers; the objective is *)
(* kept in half units (twice its value) so that 0.5 * x stays an integer,  *)
(* and the final division is kept as the pair <<numerator, denominator>>.  *)
(***************************************************************************)
EXTENDS Integers, Sequences, FiniteSets

\* ---- bounds of the model ----
MaxD == 2
MaxN == 2

Dims == 1..MaxD
\* the team of threads of a parallel region
Threads == {1, 2}
\* buffer addresses, buffer contents and regularisers the caller draws from
Ptrs == {"a0", "a1"}
TrainPtrs == {"a0"}
Datas == {0, 1}
Lambdas == {2}

\* a double: a defined number, or an indeterminate value (memory that was
\* never written, or anything computed from such memory)
Val(x) == [defined |-> TRUE, value |-> x]
Indet == [defined |-> FALSE, value |-> 0]
Add(a, b) == IF a.defined /\ b.defined THEN Val(a.value + b.value) ELSE Indet
Mul(a, b) == IF a.defined /\ b.defined THEN Val(a.value * b.value) ELSE Indet

NoMatrix == [matrix |-> "null", num_rows |-> 0, num_cols |-> 0, data |-> 0]
NoRet == [op |-> "none", val |-> <<>>]

VARIABLES
    m_lhs,          \* training matrix handle
    m_rhs,          \* test matrix handle
    m_lambda,       \* regulariser
    m_alpha_beta,   \* coefficient vector (a sequence; <<>> before the first fit)
    m_kernel,       \* kernel object: [lhs, rhs, cache]; cache names the operands
                    \* the precomputed tables were built from
    pc,             \* batch query in flight: "idle", "log_pdf", "grad", "objective"
    todo,           \* loop iterations of the parallel for not yet executed
    result,         \* output buffer of the batch query in flight
    partial,        \* objective(): per-thread private reduction variables
    joined,         \* objective(): threads whose private copy was combined
    objective_acc,  \* objective(): the shared reduction variable
    ret,            \* value returned by the last completed query
    err,            \* TRUE iff the last call ended with a contract failure
    op,             \* history: name of the last public call
    arg,            \* history: matrix the caller passed to its last set_test_data
    fitted,         \* history: fit() has completed at least once
    b_vlen,         \* history: length of b in the last fit()
    ctor_data       \* history: the matrix the estimator was constructed from

vars == <<m_lhs, m_rhs, m_lambda, m_alpha_beta, m_kernel, pc, todo,
          result, partial, joined, objective_acc, ret, err, op, arg, fitted, b_vlen,
          ctor_data>>

data_vars == <<m_lhs, m_rhs, m_lambda, m_alpha_beta, m_kernel>>
hist_vars == <<arg, fitted, b_vlen, ctor_data>>
loop_vars == <<todo, result, partial, joined, objective_acc>>

\* ---- helpers ----
\* sum of the entries of a vector of doubles, left to right
RECURSIVE SumVals(_)
SumVals(v) ==
    IF Len(v) = 0 THEN Val(0)
    ELSE Add(SumVals(SubSeq(v, 1, Len(v) - 1)), v[Len(v)])

\* the double at row d (from 1) of column i (from 0) of handle X: buffers are
\* column major, get_column_vector(i) is the address of offset i * num_rows,
\* and the buffer with contents c holds c + k at offset k
Entry(X, d, i) == X.data + (i * X.num_rows + (d - 1))

\* ---- Data Store accessors ----
get_num_dimensions == m_lhs.num_rows

\* mutant: the column count is read from the test matrix
get_num_lhs_from_rhs == m_rhs.num_cols

get_num_lhs == m_lhs.num_cols

get_num_rhs == m_rhs.num_cols

\* mutant: compares the contents instead of the buffer addresses
is_test_equals_train_data_by_value ==
    IF m_lhs.data # m_rhs.data THEN FALSE
    ELSE IF m_lhs.num_rows # m_rhs.num_rows THEN FALSE
    ELSE IF m_lhs.num_cols # m_rhs.num_cols THEN FALSE
    ELSE TRUE

is_test_equals_train_data ==
    IF m_lhs.matrix # m_rhs.matrix THEN FALSE
    ELSE IF m_lhs.num_rows # m_rhs.num_rows THEN FALSE
    ELSE IF m_lhs.num_cols # m_rhs.num_cols THEN FALSE
    ELSE TRUE

\* view of column i of m_rhs: get_num_dimensions() doubles starting at the
\* column's address, whatever the row count of m_rhs is
get_rhs_point(i) == [d \in 1..get_num_dimensions |-> Entry(m_rhs, d, i)]

get_lhs_point(i) == [d \in 1..get_num_dimensions |-> Entry(m_lhs, d, i)]

\* ---- Kernel Gateway (kernel::Base, defined elsewhere in the library) ----
NewKernel == [lhs |-> NoMatrix, rhs |-> NoMatrix, cache |-> <<NoMatrix, NoMatrix>>]

kernel_set_lhs(k, X) == [k EXCEPT !.lhs = X]

\* the gateway's dimension check on a new right operand
kernel_rhs_accepted(k, X) == X.num_rows = k.lhs.num_rows

kernel_set_rhs(k, X) == [k EXCEPT !.rhs = X]

kernel_precompute(k) == [k EXCEPT !.cache = <<k.lhs, k.rhs>>]

\* ---- construction ----
TrainMatrices ==
    [matrix : TrainPtrs, num_rows : Dims, num_cols : 1..MaxN, data : Datas]

Base(data, kernel, lambda) ==
    /\ m_lhs = data
    /\ m_rhs = data
    /\ m_kernel = kernel_precompute(kernel_set_rhs(kernel_set_lhs(kernel, data), data))
    /\ m_lambda = lambda
    /\ m_alpha_beta = <<>>

Init ==
    /\ \E data \in TrainMatrices, lambda \in Lambdas :
          /\ Base(data, NewKernel, lambda)
          /\ ctor_data = data
    /\ pc = "idle"
    /\ todo = {}
    /\ result = <<>>
    /\ partial = [t \in Threads |-> Val(0)]
    /\ joined = {}
    /\ objective_acc = Val(0)
    /\ ret = NoRet
    /\ err = FALSE
    /\ op = "Base"
    /\ arg = NoMatrix
    /\ fitted = FALSE
    /\ b_vlen = 0

\* ---- test data ----
\* matrices a caller can pass: a fresh buffer, or another handle / view of the
\* training buffer (same address, hence same contents)
TestMatrices ==
    {X \in [matrix : Ptrs, num_rows : Dims, num_cols : 0..MaxN, data : Datas] :
        X.matrix = m_lhs.matrix => X.data = m_lhs.data}

set_test_data(X) ==
    /\ m_rhs' = X
    /\ IF kernel_rhs_accepted(m_kernel, X)
       THEN /\ m_kernel' = kernel_precompute(kernel_set_rhs(m_kernel, X))
            /\ err' = FALSE
       ELSE \* set_rhs throws: precompute() is skipped, m_rhs stays assigned
            /\ m_kernel' = m_kernel
            /\ err' = TRUE
    /\ UNCHANGED <<m_lhs, m_lambda, m_alpha_beta>>

\* mutant: the test matrix is restored but the kernel is not told
reset_test_data_rhs_only ==
    /\ m_rhs' = m_lhs
    /\ err' = FALSE
    /\ UNCHANGED <<m_lhs, m_lambda, m_alpha_beta, m_kernel>>

reset_test_data == set_test_data(m_lhs)

Idle == pc = "idle"

SetTestData ==
    /\ Idle
    /\ \E X \in TestMatrices :
          /\ set_test_data(X)
          /\ arg' = X
    /\ op' = "set_test_data"
    /\ ret' = NoRet
    /\ UNCHANGED <<pc, loop_vars, fitted, b_vlen, ctor_data>>

\* set_test_data(SGVector): the vector's buffer seen as a one-column matrix
SetTestDataVector ==
    /\ Idle
    /\ \E x \in {v \in [vector : Ptrs, vlen : Dims, data : Datas] :
                    v.vector = m_lhs.matrix => v.data = m_lhs.data} :
          LET X == [matrix |-> x.vector, num_rows |-> x.vlen,
                    num_cols |-> 1, data |-> x.data]
          IN /\ set_test_data(X)
             /\ arg' = X
    /\ op' = "set_test_data"
    /\ ret' = NoRet
    /\ UNCHANGED <<pc, loop_vars, fitted, b_vlen, ctor_data>>

ResetTestData ==
    /\ Idle
    /\ reset_test_data
    /\ op' = "reset_test_data"
    /\ ret' = NoRet
    /\ UNCHANGED <<pc, loop_vars, hist_vars>>

IsTestEqualsTrainData ==
    /\ Idle
    /\ ret' = [op |-> "is_test_equals_train_data", val |-> is_test_equals_train_data]
    /\ op' = "is_test_equals_train_data"
    /\ err' = FALSE
    /\ UNCHANGED <<data_vars, pc, loop_vars, hist_vars>>

\* ---- fit ----
\* System Assembler hook: a square system (A, b) of the model's size.  A is
\* diagonal, regularised by lambda, and may have zero singular values.
SystemSize == get_num_lhs * (get_num_dimensions + 1)

build_system ==
    LET n == SystemSize
        diag == [j \in 1..n |-> m_lambda * ((j + m_lhs.data) % 3)]
        A == [num_rows |-> n, num_cols |-> n,
              matrix |-> [r \in 1..n |-> [c \in 1..n |-> IF r = c THEN diag[r] ELSE 0]]]
        b == [j \in 1..n |-> diag[j] * (j + Entry(m_lhs, 1, 0))]
    IN <<A, b>>

\* JacobiSVD(A).solve(b) for a diagonal A: the minimum norm least squares
\* solution, x[j] = b[j] / A[j][j] where the singular value is not zero
svd_solve(A, b) ==
    [j \in 1..A.num_cols |->
        IF A.matrix[j][j] = 0 THEN 0 ELSE b[j] \div A.matrix[j][j]]

\* mutant: the coefficient vector is sized by the number of training points
solve_and_store_short(A, b) ==
    LET x == svd_solve(A, b)
    IN m_alpha_beta' = [j \in 1..get_num_lhs |-> x[j]]

solve_and_store(A, b) ==
    LET alpha_beta == [j \in 1..Len(b) |-> 0]      \* SGVector(b.vlen)
        x == svd_solve(A, b)
    IN m_alpha_beta' = [j \in 1..Len(alpha_beta) |-> x[j]]

fit ==
    LET A_b == build_system
    IN solve_and_store(A_b[1], A_b[2])

Fit ==
    /\ Idle
    /\ fit
    /\ b_vlen' = Len(build_system[2])
    /\ fitted' = TRUE
    /\ op' = "fit"
    /\ err' = FALSE
    /\ ret' = NoRet
    /\ UNCHANGED <<m_lhs, m_rhs, m_lambda, m_kernel, pc, loop_vars, arg, ctor_data>>

\* ---- per point hooks (implemented by the concrete estimator) ----
\* alpha_beta[j] as a hook reads it: a read past the end of the vector (an
\* empty vector before the first fit) yields an indeterminate value
read_alpha_beta(alpha_beta, j) ==
    IF j <= Len(alpha_beta) THEN Val(alpha_beta[j]) ELSE Indet

\* kernel value between training point j and test point i, from the tables
\* precompute() built
kernel_value(kernel, j, i) ==
    Entry(kernel.cache[1], 1, j % kernel.cache[1].num_cols)
        + Entry(kernel.cache[2], 1, i)

weighted(kernel, alpha_beta, i) ==
    SumVals([j \in 1..SystemSize |->
                Mul(read_alpha_beta(alpha_beta, j), Val(kernel_value(kernel, j, i)))])

\* log_pdf(i) of an estimator with test data rhs, kernel and coefficients
log_pdf_of(rhs, kernel, alpha_beta, i) ==
    Add(weighted(kernel, alpha_beta, i), Val(Entry(rhs, 1, i)))

log_pdf_i(i) == log_pdf_of(m_rhs, m_kernel, m_alpha_beta, i)

grad_i(i) ==
    [d \in 1..get_num_dimensions |->
        Add(weighted(m_kernel, m_alpha_beta, i), Val(get_rhs_point(i)[d]))]

hessian_diag_i(i) ==
    [d \in 1..get_num_dimensions |->
        Add(Val(d), Mul(Val(-1), weighted(m_kernel, m_alpha_beta, i)))]

\* ---- batch log_pdf() ----
\* buffers are indexed from 1 in the model: slot i of the code is slot i + 1
\* mutant: the value of point i lands in the slot of the next point
log_pdf_iteration_shifted(i) ==
    result' = [result EXCEPT ![((i + 1) % get_num_rhs) + 1] = log_pdf_i(i)]

log_pdf_iteration(i) ==
    result' = [result EXCEPT ![i + 1] = log_pdf_i(i)]

LogPdfStart ==
    /\ Idle
    /\ pc' = "log_pdf"
    /\ todo' = 0..(get_num_rhs - 1)
    /\ result' = [i \in 1..get_num_rhs |-> Indet]
    /\ op' = "log_pdf"
    /\ ret' = NoRet
    /\ err' = FALSE
    /\ UNCHANGED <<data_vars, partial, joined, objective_acc, hist_vars>>

LogPdfWorker ==
    /\ pc = "log_pdf"
    /\ \E i \in todo :
          /\ log_pdf_iteration(i)
          /\ todo' = todo \ {i}
    /\ UNCHANGED <<data_vars, pc, partial, joined, objective_acc, ret, err, op, hist_vars>>

\* the end of the parallel region: every iteration has run
loop_finished == todo = {}

LogPdfReturn ==
    /\ pc = "log_pdf"
    /\ loop_finished
    /\ ret' = [op |-> "log_pdf", val |-> result]
    /\ pc' = "idle"
    /\ result' = <<>>
    /\ UNCHANGED <<data_vars, todo, partial, joined, objective_acc, err, op, hist_vars>>

\* ---- batch grad() ----
\* memcpy(dest, src, n): the new contents of dest
memcpy(dest, src, n) == [d \in 1..Len(dest) |-> IF d <= n THEN src[d] ELSE dest[d]]

\* the loop body: the hook's vector is the destination of the copy and the
\* result column its source; the temporary dies with the iteration
grad_iteration(i) ==
    LET D == get_num_dimensions
        grad == grad_i(i)
        grad_after == memcpy(grad, result[i + 1], D)
    IN /\ Len(grad_after) = D
       /\ result' = result

GradStart ==
    /\ Idle
    /\ pc' = "grad"
    /\ todo' = 0..(get_num_rhs - 1)
    /\ result' = [i \in 1..get_num_rhs |-> [d \in 1..get_num_dimensions |-> Indet]]
    /\ op' = "grad"
    /\ ret' = NoRet
    /\ err' = FALSE
    /\ UNCHANGED <<data_vars, partial, joined, objective_acc, hist_vars>>

GradWorker ==
    /\ pc = "grad"
    /\ \E i \in todo :
          /\ grad_iteration(i)
          /\ todo' = todo \ {i}
    /\ UNCHANGED <<data_vars, pc, partial, joined, objective_acc, ret, err, op, hist_vars>>

GradReturn ==
    /\ pc = "grad"
    /\ loop_finished
    /\ ret' = [op |-> "grad", val |-> result]
    /\ pc' = "idle"
    /\ result' = <<>>
    /\ UNCHANGED <<data_vars, todo, partial, joined, objective_acc, err, op, hist_vars>>

\* ---- objective() ----
squaredNorm(v) == SumVals([d \in DOMAIN v |-> Mul(v[d], v[d])])

sum(v) == SumVals(v)

\* the loop body, run by thread t on its private copy of the reduction
\* variable (in half units: 0.5 * x is counted as x, y as 2 * y)
objective_iteration(t, i) ==
    LET gradient == grad_i(i)
        after_gradient == Add(partial[t], squaredNorm(gradient))
        hessian_diag == hessian_diag_i(i)
    IN partial' = [partial EXCEPT
                      ![t] = Add(after_gradient, Mul(Val(2), sum(hessian_diag)))]

\* mutant: a lost update, the private copy overwrites the shared variable
objective_combine_overwrite(t) == objective_acc' = partial[t]

\* reduction(+:objective): thread t adds its private copy to the shared one
objective_combine(t) == objective_acc' = Add(objective_acc, partial[t])

ObjectiveStart ==
    /\ Idle
    /\ pc' = "objective"
    /\ todo' = 0..(get_num_rhs - 1)
    /\ objective_acc' = Val(0)
    /\ partial' = [t \in Threads |-> Val(0)]
    /\ joined' = {}
    /\ op' = "objective"
    /\ ret' = NoRet
    /\ err' = FALSE
    /\ UNCHANGED <<data_vars, result, hist_vars>>

\* any thread may be handed any remaining iteration
ObjectiveWorker ==
    /\ pc = "objective"
    /\ \E t \in Threads, i \in todo :
          /\ objective_iteration(t, i)
          /\ todo' = todo \ {i}
    /\ UNCHANGED <<data_vars, pc, result, joined, objective_acc, ret, err, op, hist_vars>>

\* the private copies are combined, in any order, once the loop is done
ObjectiveCombine ==
    /\ pc = "objective"
    /\ loop_finished
    /\ \E t \in Threads \ joined :
          /\ objective_combine(t)
          /\ joined' = joined \cup {t}
    /\ UNCHANGED <<data_vars, pc, todo, result, partial, ret, err, op, hist_vars>>

\* objective / N, kept as <<numerator, denominator>> in half units
ObjectiveReturn ==
    /\ pc = "objective"
    /\ loop_finished
    /\ joined = Threads
    /\ ret' = [op |-> "objective", val |-> <<objective_acc, 2 * get_num_rhs>>]
    /\ pc' = "idle"
    /\ partial' = [t \in Threads |-> Val(0)]
    /\ joined' = {}
    /\ objective_acc' = Val(0)
    /\ UNCHANGED <<data_vars, todo, result, err, op, hist_vars>>

Next ==
    \/ SetTestData
    \/ SetTestDataVector
    \/ ResetTestData
    \/ IsTestEqualsTrainData
    \/ Fit
    \/ LogPdfStart
    \/ LogPdfWorker
    \/ LogPdfReturn
    \/ GradStart
    \/ GradWorker
    \/ GradReturn
    \/ ObjectiveStart
    \/ ObjectiveWorker
    \/ ObjectiveCombine
    \/ ObjectiveReturn

Spec == Init /\ [][Next]_vars

\* ---- claims ----
Queries == {"log_pdf", "grad", "objective"}

\* C1: after fit(), the matrix returned by grad() has D rows and N_test
\* columns, and its column i equals the vector returned by grad(i).
C1_GradColumnsEqualHook ==
    (ret.op = "grad" /\ fitted) =>
        /\ Len(ret.val) = get_num_rhs
        /\ \A i \in 0..(get_num_rhs - 1) :
              /\ Len(ret.val[i + 1]) = get_num_dimensions
              /\ ret.val[i + 1] = grad_i(i)

\* C2: is_test_equals_train_data() is true right after construction and right
\* after reset_test_data(), and false right after set_test_data(X) with X in a
\* buffer other than the training buffer, whatever X holds.
C2_AliasingFlag ==
    /\ op \in {"Base", "reset_test_data"} => is_test_equals_train_data
    /\ (op = "set_test_data" /\ arg.matrix # m_lhs.matrix) =>
           ~is_test_equals_train_data

C2_Witness ==
    /\ op = "set_test_data"
    /\ fitted
    /\ arg.matrix # m_lhs.matrix
    /\ arg.data = m_lhs.data
    /\ arg.num_rows = m_lhs.num_rows
    /\ arg.num_cols = m_lhs.num_cols

\* C3: a density query made before the first fit() ends with a contract
\* failure: no loop is entered and no value is returned.
C3_QueryBeforeFitFails ==
    ~fitted =>
        /\ pc = "idle"
        /\ ret.op \notin Queries
        /\ op \in Queries => err

\* C4: the row count of rhs equals the row count of lhs in every state.
C4_SameDimension == m_rhs.num_rows = m_lhs.num_rows

\* C5: after fit(), log_pdf() returns N_test entries, entry i being log_pdf(i),
\* for every order in which the iterations run; while the loop runs, exactly
\* the slots of the finished iterations are written, each with its own value.
C5_LogPdfEntriesEqualHook ==
    /\ (ret.op = "log_pdf" /\ fitted) =>
          /\ Len(ret.val) = get_num_rhs
          /\ \A i \in 0..(get_num_rhs - 1) : ret.val[i + 1] = log_pdf_i(i)
    /\ (pc = "log_pdf" /\ fitted) =>
          /\ Len(result) = get_num_rhs
          /\ \A i \in 0..(get_num_rhs - 1) :
                result[i + 1] = IF i \in todo THEN Indet ELSE log_pdf_i(i)

C5_Witness ==
    /\ ret.op = "log_pdf"
    /\ fitted
    /\ Len(ret.val) >= 2
    /\ ret.val[1] # ret.val[2]
    /\ ~is_test_equals_train_data

\* the single threaded computation, in the order of the points
RECURSIVE sequential_objective(_)
sequential_objective(n) ==
    IF n = 0 THEN Val(0)
    ELSE Add(sequential_objective(n - 1),
             Add(squaredNorm(grad_i(n - 1)), Mul(Val(2), sum(hessian_diag_i(n - 1)))))

\* C6: objective() is the sum over the test points of
\* 0.5 * |grad(i)|^2 + sum(hessian_diag(i)), divided by N_test, whatever the
\* order in which the reduction runs and combines the iterations.
C6_ObjectiveIsMean ==
    (ret.op = "objective" /\ fitted) =>
        ret.val = <<sequential_objective(get_num_rhs), 2 * get_num_rhs>>

C6_Witness ==
    /\ ret.op = "objective"
    /\ fitted
    /\ get_num_rhs >= 2
    /\ ret.val[1].defined
    /\ ret.val[1].value # 0

\* C7: between calls, the kernel's operands are the estimator's lhs and rhs
\* and its tables were built from these operands.
C7_KernelMirrorsDataStore ==
    pc = "idle" =>
        /\ m_kernel.lhs = m_lhs
        /\ m_kernel.rhs = m_rhs
        /\ m_kernel.cache = <<m_lhs, m_rhs>>

\* C8: only fit() changes alpha_beta, and right after every fit() its length
\* is the length of the vector b the assembler produced for that fit.
C8_AlphaBetaOnlyByFit ==
    [][ /\ m_alpha_beta' # m_alpha_beta => op' = "fit"
        /\ op' = "fit" => Len(m_alpha_beta') = b_vlen' ]_vars

C8_Witness ==
    /\ op = "fit"
    /\ Len(m_alpha_beta) = b_vlen
    /\ b_vlen > get_num_lhs
    /\ m_rhs # m_lhs

\* the kernel of a newly constructed estimator on the same training data
ConstructedKernel ==
    kernel_precompute(kernel_set_rhs(kernel_set_lhs(NewKernel, m_lhs), m_lhs))

\* C9: right after reset_test_data() the test data, the test count, the kernel
\* and the aliasing flag are those of a newly constructed estimator, and
\* log_pdf(i) is what that estimator gives with the same coefficients.
C9_ResetRestoresConstruction ==
    op = "reset_test_data" =>
        /\ m_rhs = m_lhs
        /\ get_num_rhs = get_num_lhs
        /\ m_kernel = ConstructedKernel
        /\ is_test_equals_train_data
        /\ \A i \in 0..(get_num_rhs - 1) :
              log_pdf_i(i) = log_pdf_of(m_lhs, ConstructedKernel, m_alpha_beta, i)

C9_Witness ==
    /\ op = "reset_test_data"
    /\ fitted
    /\ arg.matrix \in Ptrs \ {m_lhs.matrix}
    /\ arg.num_cols # m_lhs.num_cols
    /\ get_num_rhs >= 2

\* C10: lhs is the matrix given at construction in every state, so the
\* dimension and the number of training points are its row and column counts.
C10_LhsFixed ==
    /\ m_lhs = ctor_data
    /\ get_num_dimensions = ctor_data.num_rows
    /\ get_num_lhs = ctor_data.num_cols

C10_Witness ==
    /\ op \in Queries
    /\ fitted
    /\ m_rhs.num_cols # ctor_data.num_cols
    /\ m_rhs.matrix # ctor_data.matrix


====
